---------------------------- MODULE Spec2Model ----------------------------
(***************************************************************************)
(* Model of structure_block_exporter.py: the NBT locator, the structure    *)
(* block parser, the palette, the Java structure-template export and the   *)
(* export loop of export_structures_from_structure_blocks.                 *)
(*                                                                         *)
(* Text is modelled as sequences of one-character strings, so that         *)
(* lowercasing, trimming, substring search and formatting are computed.    *)
(***************************************************************************)
EXTENDS Integers, Sequences, FiniteSets, TLC

VARIABLES
    tree,       \* locator: the tag handed to _find_first_str / _find_first_int
    subs,       \* locator: the key_substrings tuple
    located,      \* locator: which function ran and what it returned
    paletteState, \* palette: palette and palette_index of the export under way
    pushes,     \* palette: the get_state_index calls so far, with their results
    blocks,     \* world: position -> block
    chunks,     \* world: the chunks, in chunk_locations() order
    selection,  \* the boxes of the selection
    theBox,     \* the target box of the export under way
    exported,   \* what _export_java_structure_nbt left behind
    markers,    \* what _iter_structure_blocks returned
    collected,  \* what _collect_block_entities_in_box returned
    options,    \* run: fmt_raw, include_entities and remove_blocks
    files,      \* run: the file names that exist in out_dir
    pc,         \* run: where export_structures_from_structure_blocks stands
    parsed,     \* run: the resolved (position, data) records
    idx,        \* run: the loop counter i
    progress,   \* run: the fractions yielded so far
    outcomes    \* run: what each export attempt so far left behind

locVars == <<tree, subs, located>>
palVars == <<paletteState, pushes>>
worldVars == <<blocks, chunks, selection>>
expVars == <<theBox, exported, markers, collected>>
runVars == <<options, files, pc, parsed, idx, progress, outcomes>>
vars == <<locVars, palVars, worldVars, expVars, runVars>>

(***************************************************************************)
(* Python values                                                           *)
(***************************************************************************)
None == [some |-> FALSE]
Some(v) == [some |-> TRUE, val |-> v]

Min(a, b) == IF a < b THEN a ELSE b

(***************************************************************************)
(* Text                                                                    *)
(***************************************************************************)
UpperChars == <<"A","B","C","D","E","F","G","H","I","J","K","L","M",
                "N","O","P","Q","R","S","T","U","V","W","X","Y","Z">>
LowerChars == <<"a","b","c","d","e","f","g","h","i","j","k","l","m",
                "n","o","p","q","r","s","t","u","v","w","x","y","z">>
DigitChars == <<"0","1","2","3","4","5","6","7","8","9">>

\* str.lower() on one character
LowerOf == [c \in {UpperChars[i] : i \in DOMAIN UpperChars} |->
               LowerChars[CHOOSE i \in DOMAIN UpperChars : UpperChars[i] = c]]
LowerChar(c) == IF c \in DOMAIN LowerOf THEN LowerOf[c] ELSE c

\* str.lower()
Lower(s) == [i \in DOMAIN s |-> LowerChar(s[i])]

\* `sub in s`
Contains(sub, s) ==
    \E i \in 0..(Len(s) - Len(sub)) : \A j \in DOMAIN sub : s[i + j] = sub[j]

IsSpace(c) == c \in {" ", "\t", "\n", "\r"}
IsDigit(c) == \E i \in DOMAIN DigitChars : DigitChars[i] = c
DigitVal(c) == (CHOOSE i \in DOMAIN DigitChars : DigitChars[i] = c) - 1

\* str.strip()
Strip(s) ==
    IF \A i \in DOMAIN s : IsSpace(s[i]) THEN <<>>
    ELSE LET lo == CHOOSE i \in DOMAIN s :
                       ~IsSpace(s[i]) /\ \A j \in 1..(i - 1) : IsSpace(s[j])
             hi == CHOOSE i \in DOMAIN s :
                       ~IsSpace(s[i]) /\ \A j \in (i + 1)..Len(s) : IsSpace(s[j])
         IN SubSeq(s, lo, hi)

\* str(i) for an integer i >= 0
RECURSIVE StrNat(_)
StrNat(i) ==
    IF i < 10 THEN <<DigitChars[i + 1]>>
    ELSE StrNat(i \div 10) \o <<DigitChars[(i % 10) + 1]>>

\* the value of a string of digits
RECURSIVE DigitsVal(_)
DigitsVal(s) ==
    IF s = <<>> THEN 0
    ELSE 10 * DigitsVal(SubSeq(s, 1, Len(s) - 1)) + DigitVal(s[Len(s)])

\* int(t) for a string t without surrounding whitespace: an optional sign,
\* then digits
IntOfStripped(t) ==
    LET signed == t # <<>> /\ t[1] \in {"+", "-"}
        digits == IF signed THEN Tail(t) ELSE t
    IN IF digits # <<>> /\ \A i \in DOMAIN digits : IsDigit(digits[i])
       THEN Some(IF signed /\ t[1] = "-" THEN 0 - DigitsVal(digits)
                 ELSE DigitsVal(digits))
       ELSE None

\* int(str): surrounding whitespace is ignored
IntOfStr(s) == IntOfStripped(Strip(s))

(***************************************************************************)
(* NBT tags.  A compound holds <<key, tag>> pairs in its native key order, *)
(* a list holds tags, a scalar holds a value: an int, a float (counted in  *)
(* halves: h stands for h/2) or a string.                                  *)
(***************************************************************************)
IntTag(n) == [kind |-> "scalar", val |-> [t |-> "int", n |-> n]]
FloatTag(h) == [kind |-> "scalar", val |-> [t |-> "float", h |-> h]]
StringTag(s) == [kind |-> "scalar", val |-> [t |-> "str", s |-> s]]
CompoundTag(items) == [kind |-> "compound", items |-> items]
ListTag(items) == [kind |-> "list", items |-> items]

\* _nbt_value
NbtValue(v) == IF v.kind = "scalar" THEN v.val ELSE [t |-> v.kind]

\* int(float): truncation toward zero
TruncHalves(h) == IF h >= 0 THEN h \div 2 ELSE 0 - ((0 - h) \div 2)

\* int(_nbt_value(v)), None standing for the exception
IntOf(val) ==
    CASE val.t = "int" -> Some(val.n)
      [] val.t = "float" -> Some(TruncHalves(val.h))
      [] val.t = "str" -> IntOfStr(val.s)
      [] OTHER -> None

\* hasattr(v, "keys") or v is a TAG_List / list / tuple
Descends(v) == v.kind \in {"compound", "list"}

RECURSIVE IterNbtTree(_)
RECURSIVE IterChildren(_, _)

\* a bug the locator claims must notice: the following children yielded
\* before the subtree of the child
IterChildrenSiblingsFirst(tag, i) ==
    IF i > Len(tag.items) THEN <<>>
    ELSE LET k == IF tag.kind = "compound" THEN tag.items[i][1] ELSE StrNat(i - 1)
             v == IF tag.kind = "compound" THEN tag.items[i][2] ELSE tag.items[i]
         IN <<[key |-> k, value |-> v]>>
            \o IterChildren(tag, i + 1)
            \o (IF Descends(v) THEN IterNbtTree(v) ELSE <<>>)

\* the loop body of _iter_nbt_tree from child i on: yield the child, then
\* what its subtree yields, then the following children
IterChildren(tag, i) ==
    IF i > Len(tag.items) THEN <<>>
    ELSE LET k == IF tag.kind = "compound" THEN tag.items[i][1] ELSE StrNat(i - 1)
             v == IF tag.kind = "compound" THEN tag.items[i][2] ELSE tag.items[i]
         IN <<[key |-> k, value |-> v]>>
            \o (IF Descends(v) THEN IterNbtTree(v) ELSE <<>>)
            \o IterChildren(tag, i + 1)

\* _iter_nbt_tree: the (key, value) pairs in the order they are yielded; a
\* tag that is neither a mapping nor iterable yields nothing
IterNbtTree(tag) ==
    IF Descends(tag) THEN IterChildren(tag, 1) ELSE <<>>

\* any(s in lk for s in key_substrings)
KeyMatches(k, key_substrings) ==
    LET lk == Lower(k)
    IN \E j \in DOMAIN key_substrings : Contains(key_substrings[j], lk)

\* `if isinstance(val, str) and val.strip(): return val.strip()`, with t the
\* trimmed string
NonEmpty(t) == IF t # <<>> THEN Some(t) ELSE None

\* the value _find_first_str returns for one yielded pair, None to go on
StrHit(e, key_substrings) ==
    IF KeyMatches(e.key, key_substrings) /\ NbtValue(e.value).t = "str"
    THEN NonEmpty(Strip(NbtValue(e.value).s)) ELSE None

\* the value _find_first_int returns for one yielded pair, None to go on
IntHit(e, key_substrings) ==
    IF KeyMatches(e.key, key_substrings) THEN IntOf(NbtValue(e.value)) ELSE None

\* the first return the loop reaches, None when it runs to its end
FirstReturn(hits) ==
    IF \A i \in DOMAIN hits : ~hits[i].some THEN None
    ELSE hits[CHOOSE i \in DOMAIN hits :
                  hits[i].some /\ \A j \in 1..(i - 1) : ~hits[j].some]

\* the pairs _iter_nbt_tree yields, each with what _find_first_str makes of it
StrHits(ys, key_substrings) == [i \in DOMAIN ys |-> StrHit(ys[i], key_substrings)]
IntHits(ys, key_substrings) == [i \in DOMAIN ys |-> IntHit(ys[i], key_substrings)]

\* _find_first_str
FindFirstStr(tag, key_substrings) ==
    FirstReturn(StrHits(IterNbtTree(tag), key_substrings))

\* _find_first_int
FindFirstInt(tag, key_substrings) ==
    FirstReturn(IntHits(IterNbtTree(tag), key_substrings))

(***************************************************************************)
(* File names and paths.  The output directory is modelled by the set of   *)
(* file names that exist in it.                                            *)
(***************************************************************************)
\* the first position of character c in s, 0 when absent
IndexOf(c, s) ==
    IF \E i \in DOMAIN s : s[i] = c
    THEN CHOOSE i \in DOMAIN s : s[i] = c /\ \A j \in 1..(i - 1) : s[j] # c
    ELSE 0

\* _strip_namespace
StripNamespace(identifier) ==
    IF identifier = <<>> THEN identifier
    ELSE IF IndexOf(":", identifier) > 0
         THEN SubSeq(identifier, IndexOf(":", identifier) + 1, Len(identifier))
         ELSE identifier

\* \w of the regular expression, and the class [\w\-. ]
IsWordChar(c) ==
    \/ IsDigit(c)
    \/ c = "_"
    \/ \E i \in DOMAIN LowerChars : LowerChars[i] = c \/ UpperChars[i] = c
IsAllowedChar(c) == IsWordChar(c) \/ c \in {"-", ".", " "}

\* re.sub(r"[^\w\-. ]+", "_", s): each run of other characters becomes one "_"
RECURSIVE SubDisallowed(_, _)
SubDisallowed(s, inRun) ==
    IF s = <<>> THEN <<>>
    ELSE IF IsAllowedChar(Head(s)) THEN <<Head(s)>> \o SubDisallowed(Tail(s), FALSE)
         ELSE (IF inRun THEN <<>> ELSE <<"_">>) \o SubDisallowed(Tail(s), TRUE)

\* re.sub(r"\s+", " ", s): each run of whitespace becomes one space
RECURSIVE CollapseSpaces(_, _)
CollapseSpaces(s, inRun) ==
    IF s = <<>> THEN <<>>
    ELSE IF ~IsSpace(Head(s)) THEN <<Head(s)>> \o CollapseSpaces(Tail(s), FALSE)
         ELSE (IF inRun THEN <<>> ELSE <<" ">>) \o CollapseSpaces(Tail(s), TRUE)

\* str.replace of "\", "/" and ":" by "_"
ReplaceSeparators(s) ==
    [i \in DOMAIN s |-> IF s[i] \in {"\\", "/", ":"} THEN "_" ELSE s[i]]

MaxFilenameLen == 150

\* `if not name: name = "unnamed"`
OrUnnamed(name) == IF name = <<>> THEN <<"u","n","n","a","m","e","d">> ELSE name

\* name[:150]
Cap(name) == SubSeq(name, 1, Min(MaxFilenameLen, Len(name)))

\* _safe_filename
SafeFilename(name) ==
    Cap(Strip(CollapseSpaces(
            SubDisallowed(ReplaceSeparators(OrUnnamed(Strip(name))), FALSE), FALSE)))

\* os.path.splitext of a file name without separators: the extension starts
\* at the last dot, unless only dots come before it
SplitExt(filename) ==
    LET dots == {i \in DOMAIN filename : filename[i] = "."}
        d == IF dots = {} THEN 0 ELSE CHOOSE i \in dots : \A j \in dots : j <= i
    IN IF d > 0 /\ \E j \in 1..(d - 1) : filename[j] # "."
       THEN <<SubSeq(filename, 1, d - 1), SubSeq(filename, d, Len(filename))>>
       ELSE <<filename, <<>> >>

\* f"{root}_{i}{ext}"
Candidate(root, i, ext) == root \o <<"_">> \o StrNat(i) \o ext

\* the loop of _unique_path: the first i >= 1 whose candidate is free
FirstFree(existing, root_ext) ==
    Candidate(root_ext[1],
              CHOOSE n \in 1..(Cardinality(existing) + 1) :
                  /\ Candidate(root_ext[1], n, root_ext[2]) \notin existing
                  /\ \A m \in 1..(n - 1) :
                         Candidate(root_ext[1], m, root_ext[2]) \in existing,
              root_ext[2])

\* _unique_path, with `existing` the file names os.path.exists finds
UniquePath(existing, filename) ==
    IF filename \notin existing THEN filename
    ELSE FirstFree(existing, SplitExt(filename))

EXT_MCSTRUCTURE == <<".","m","c","s","t","r","u","c","t","u","r","e">>
EXT_NBT == <<".","n","b","t">>

(***************************************************************************)
(* The structure block parser.                                             *)
(***************************************************************************)
NAME_KEYS ==
    << <<"s","t","r","u","c","t","u","r","e","n","a","m","e">>,
       <<"s","t","r","u","c","t","u","r","e","_","n","a","m","e">>,
       <<"n","a","m","e">>,
       <<"i","d","e","n","t","i","f","i","e","r">> >>
OFFSET_X_KEYS ==
    << <<"x","s","t","r","u","c","t","u","r","e","o","f","f","s","e","t">>,
       <<"s","t","r","u","c","t","u","r","e","o","f","f","s","e","t","x">>,
       <<"o","f","f","s","e","t","x">>,
       <<"p","o","s","x">> >>
OFFSET_Y_KEYS ==
    << <<"y","s","t","r","u","c","t","u","r","e","o","f","f","s","e","t">>,
       <<"s","t","r","u","c","t","u","r","e","o","f","f","s","e","t","y">>,
       <<"o","f","f","s","e","t","y">>,
       <<"p","o","s","y">> >>
OFFSET_Z_KEYS ==
    << <<"z","s","t","r","u","c","t","u","r","e","o","f","f","s","e","t">>,
       <<"s","t","r","u","c","t","u","r","e","o","f","f","s","e","t","z">>,
       <<"o","f","f","s","e","t","z">>,
       <<"p","o","s","z">> >>
SIZE_X_KEYS ==
    << <<"x","s","t","r","u","c","t","u","r","e","s","i","z","e">>,
       <<"s","t","r","u","c","t","u","r","e","s","i","z","e","x">>,
       <<"s","i","z","e","x">>,
       <<"s","i","z","e","_","x">> >>
SIZE_Y_KEYS ==
    << <<"y","s","t","r","u","c","t","u","r","e","s","i","z","e">>,
       <<"s","t","r","u","c","t","u","r","e","s","i","z","e","y">>,
       <<"s","i","z","e","y">>,
       <<"s","i","z","e","_","y">> >>
SIZE_Z_KEYS ==
    << <<"z","s","t","r","u","c","t","u","r","e","s","i","z","e">>,
       <<"s","t","r","u","c","t","u","r","e","s","i","z","e","z">>,
       <<"s","i","z","e","z">>,
       <<"s","i","z","e","_","z">> >>

\* a bug the marker claims must notice: a size component of 0 accepted
ParseFoundZeroSize(name, ints) ==
    IF ~name.some THEN None
    ELSE IF \E i \in 1..6 : ~ints[i].some THEN None
    ELSE IF ints[4].val < 0 \/ ints[5].val < 0 \/ ints[6].val < 0 THEN None
    ELSE Some([name |-> name.val,
               offset |-> <<ints[1].val, ints[2].val, ints[3].val>>,
               size |-> <<ints[4].val, ints[5].val, ints[6].val>>])

\* the checks of _parse_structure_block on what the locator found: the name
\* and <<ox, oy, oz, sx, sy, sz>>
ParseFound(name, ints) ==
    IF ~name.some THEN None
    ELSE IF \E i \in 1..6 : ~ints[i].some THEN None
    ELSE IF ints[4].val <= 0 \/ ints[5].val <= 0 \/ ints[6].val <= 0 THEN None
    ELSE Some([name |-> name.val,
               offset |-> <<ints[1].val, ints[2].val, ints[3].val>>,
               size |-> <<ints[4].val, ints[5].val, ints[6].val>>])

\* _parse_structure_block
ParseStructureBlock(tag) ==
    ParseFound(FindFirstStr(tag, NAME_KEYS),
               <<FindFirstInt(tag, OFFSET_X_KEYS), FindFirstInt(tag, OFFSET_Y_KEYS),
                 FindFirstInt(tag, OFFSET_Z_KEYS), FindFirstInt(tag, SIZE_X_KEYS),
                 FindFirstInt(tag, SIZE_Y_KEYS), FindFirstInt(tag, SIZE_Z_KEYS)>>)

(***************************************************************************)
(* The world.  `blocks` maps positions to blocks (air elsewhere); `chunks` *)
(* lists the chunks in the order chunk_locations() yields them, each with  *)
(* its coordinates, whether get_chunk can load it, its block entities and  *)
(* its entities, in their iteration order.                                 *)
(***************************************************************************)
Block(namespace, base_name, properties) ==
    [namespace |-> namespace, base_name |-> base_name, properties |-> properties]

AIR == Block(<<"u","n","i","v","e","r","s","a","l","_","m","i","n","e","c","r","a","f","t">>, <<"a","i","r">>, <<>>)

\* the chunk coordinate of a block coordinate (x >> 4)
ChunkCoord(x) == x \div 16

\* SelectionBox(min_point, max_point): the corners are put in order
SelectionBox(p1, p2) ==
    [min |-> [a \in 1..3 |-> Min(p1[a], p2[a])],
     max |-> [a \in 1..3 |-> IF p1[a] < p2[a] THEN p2[a] ELSE p1[a]]]

\* whether chunk (cx, cz) holds a column of the box
ChunkMeetsBox(cx, cz, b) ==
    /\ \E x \in b.min[1]..(b.max[1] - 1) : ChunkCoord(x) = cx
    /\ \E z \in b.min[3]..(b.max[3] - 1) : ChunkCoord(z) = cz
    /\ b.min[2] < b.max[2]

\* SelectionGroup.chunk_locations(): the positions in `chs` of the chunks
\* that meet one of the boxes, in world order
ChunkLocations(chs, boxes) ==
    LET F[i \in 0..Len(chs)] ==
            IF i = 0 THEN <<>>
            ELSE IF \E b \in boxes : ChunkMeetsBox(chs[i].cx, chs[i].cz, b)
                 THEN Append(F[i - 1], i) ELSE F[i - 1]
    IN F[Len(chs)]

\* whether world.get_chunk / world.get_block can load the chunk of column
\* (x, z); they raise ChunkLoadError when not
ColumnLoads(chs, x, z) ==
    \E i \in DOMAIN chs :
        chs[i].cx = ChunkCoord(x) /\ chs[i].cz = ChunkCoord(z) /\ chs[i].loads

\* world.get_block on a column that loads
BlockAt(blks, p) == IF p \in DOMAIN blks THEN blks[p] ELSE AIR

\* a bug the membership claims must notice: the upper corner taken in
InAnyBoxClosedMax(boxes, p) ==
    \E b \in boxes :
        /\ b.min[1] <= p[1] /\ p[1] <= b.max[1]
        /\ b.min[2] <= p[2] /\ p[2] <= b.max[2]
        /\ b.min[3] <= p[3] /\ p[3] <= b.max[3]

\* in_any_box
InAnyBox(boxes, p) ==
    \E b \in boxes :
        /\ b.min[1] <= p[1] /\ p[1] < b.max[1]
        /\ b.min[2] <= p[2] /\ p[2] < b.max[2]
        /\ b.min[3] <= p[3] /\ p[3] < b.max[3]

\* _is_structure_block: any exception of get_block counts as "no"
IsStructureBlock(blks, chs, p) ==
    /\ ColumnLoads(chs, p[1], p[3])
    /\ BlockAt(blks, p).base_name = <<"s","t","r","u","c","t","u","r","e","_","b","l","o","c","k">>

\* _iter_structure_blocks: (position, tag, parsed) of every structure block
\* entity with NBT inside the selection, in encounter order
IterStructureBlocks(blks, chs, boxes) ==
    LET locs == ChunkLocations(chs, boxes)
        OfChunk(ch) ==
            LET bes == ch.block_entities
                G[j \in 0..Len(bes)] ==
                    IF j = 0 THEN <<>>
                    ELSE IF /\ InAnyBox(boxes, bes[j].pos)
                            /\ IsStructureBlock(blks, chs, bes[j].pos)
                            /\ bes[j].nbt.some
                         THEN Append(G[j - 1],
                                     [pos |-> bes[j].pos, tag |-> bes[j].nbt.val,
                                      parsed |-> ParseStructureBlock(bes[j].nbt.val)])
                         ELSE G[j - 1]
            IN G[Len(bes)]
        F[i \in 0..Len(locs)] ==
            IF i = 0 THEN <<>>
            ELSE IF ~chs[locs[i]].loads THEN F[i - 1]
                 ELSE F[i - 1] \o OfChunk(chs[locs[i]])
    IN F[Len(locs)]

(***************************************************************************)
(* The Java structure-template export.                                     *)
(***************************************************************************)
\* the characters of the model in code point order
CodePointOrder ==
    <<" ","-",".","/","0","1","2","3","4","5","6","7","8","9",":","A","B","C","D","E","F","G","H","I","J","K","L","M","N","O","P","Q",
      "R","S","T","U","V","W","X","Y","Z","_","a","b","c","d","e","f","g","h","i","j","k","l","m","n","o","p","q","r","s","t","u","v","w","x","y","z">>
CharOrd(c) == CHOOSE i \in DOMAIN CodePointOrder : CodePointOrder[i] = c

\* s < t on Python strings
StrLess(s, t) ==
    \E i \in 1..(Min(Len(s), Len(t)) + 1) :
        /\ SubSeq(s, 1, i - 1) = SubSeq(t, 1, i - 1)
        /\ \/ i > Len(s) /\ i <= Len(t)
           \/ i <= Len(s) /\ i <= Len(t) /\ CharOrd(s[i]) < CharOrd(t[i])

\* p < q on (key, value) tuples
PairLess(p, q) == StrLess(p[1], q[1]) \/ (p[1] = q[1] /\ StrLess(p[2], q[2]))

\* sorted(...) of the property pairs
RECURSIVE SortPairs(_)
SortPairs(ps) ==
    IF ps = <<>> THEN <<>>
    ELSE LET m == CHOOSE i \in DOMAIN ps : \A j \in DOMAIN ps : ~PairLess(ps[j], ps[i])
         IN <<ps[m]>> \o SortPairs(SubSeq(ps, 1, m - 1) \o SubSeq(ps, m + 1, Len(ps)))

\* a bug the palette claims must notice: the properties left out of the key
StateKeyNameOnly(block) ==
    <<block.namespace \o <<":">> \o block.base_name, <<>> >>

\* _state_key
StateKey(block) ==
    <<block.namespace \o <<":">> \o block.base_name, SortPairs(block.properties)>>

\* _universal_block_to_java_state
UniversalBlockToJavaState(block) ==
    IF block.properties # <<>>
    THEN [Name |-> block.namespace \o <<":">> \o block.base_name,
          Properties |-> Some(block.properties)]
    ELSE [Name |-> block.namespace \o <<":">> \o block.base_name,
          Properties |-> None]

\* the palette of one export: the list and the key -> index dictionary
EmptyPalette == [palette |-> <<>>, palette_index |-> <<>>]

\* the body of get_state_index once the key is computed
IndexOfKey(pal, key, block) ==
    IF key \in DOMAIN pal.palette_index
    THEN [idx |-> pal.palette_index[key], pal |-> pal]
    ELSE [idx |-> Len(pal.palette),
          pal |-> [palette |-> Append(pal.palette, UniversalBlockToJavaState(block)),
                   palette_index |-> (key :> Len(pal.palette)) @@ pal.palette_index]]

\* get_state_index: the index returned and the palette afterwards
GetStateIndex(pal, block) == IndexOfKey(pal, StateKey(block), block)

\* _collect_block_entities_in_box: position -> block entity
CollectBlockEntitiesInBox(chs, box) ==
    LET locs == ChunkLocations(chs, {box})
        OfChunk(ch, acc) ==
            LET bes == ch.block_entities
                G[j \in 0..Len(bes)] ==
                    IF j = 0 THEN acc
                    ELSE IF /\ box.min[1] <= bes[j].pos[1] /\ bes[j].pos[1] < box.max[1]
                            /\ box.min[2] <= bes[j].pos[2] /\ bes[j].pos[2] < box.max[2]
                            /\ box.min[3] <= bes[j].pos[3] /\ bes[j].pos[3] < box.max[3]
                         THEN (bes[j].pos :> bes[j]) @@ G[j - 1]
                         ELSE G[j - 1]
            IN G[Len(bes)]
        F[i \in 0..Len(locs)] ==
            IF i = 0 THEN <<>>
            ELSE IF ~chs[locs[i]].loads THEN F[i - 1]
                 ELSE OfChunk(chs[locs[i]], F[i - 1])
    IN F[Len(locs)]

\* a bug the scan order claims must notice: the x loop outermost
ScanCellsXMajor(box) ==
    LET sx == box.max[1] - box.min[1]
        sy == box.max[2] - box.min[2]
        sz == box.max[3] - box.min[3]
    IN [n \in 1..(sx * sy * sz) |->
           <<box.min[1] + ((n - 1) \div (sy * sz)),
             box.min[2] + (((n - 1) \div sz) % sy),
             box.min[3] + ((n - 1) % sz)>>]

\* the voxels of the box in the order of the three nested loops
ScanCells(box) ==
    LET sx == box.max[1] - box.min[1]
        sy == box.max[2] - box.min[2]
        sz == box.max[3] - box.min[3]
    IN [n \in 1..(sx * sy * sz) |->
           <<box.min[1] + ((n - 1) % sx),
             box.min[2] + ((n - 1) \div (sx * sz)),
             box.min[3] + (((n - 1) \div sx) % sz)>>]

\* the block entity tag attached to a block entry: a copy without its
\* top-level x, y and z
StripXYZ(tag) ==
    IF tag.kind = "compound"
    THEN CompoundTag(SelectSeq(tag.items,
                               LAMBDA it : it[1] \notin {<<"x">>, <<"y">>, <<"z">>}))
    ELSE tag

\* a bug the document claims must notice: the position not made relative
AddEntryAbsolute(st, p, box, got, be) ==
    [st EXCEPT !.pal = got.pal,
               !.blocks_list =
                   Append(@, [pos |-> <<p[1], p[2], p[3]>>,
                              state |-> got.idx,
                              nbt |-> IF be.some /\ be.val.nbt.some
                                      THEN Some(StripXYZ(be.val.nbt.val)) ELSE None])]

\* the end of the loop body: the entry of voxel p, with got what
\* get_state_index returned and be the block entity at p, if any
AddEntry(st, p, box, got, be) ==
    [st EXCEPT !.pal = got.pal,
               !.blocks_list =
                   Append(@, [pos |-> <<p[1] - box.min[1], p[2] - box.min[2],
                                        p[3] - box.min[3]>>,
                              state |-> got.idx,
                              nbt |-> IF be.some /\ be.val.nbt.some
                                      THEN Some(StripXYZ(be.val.nbt.val)) ELSE None])]

\* one pass of the loop body for voxel p; st.raised stands for an exception
\* that left the loops
ScanVoxel(st, p, blks, chs, box, be_map, remove_blocks) ==
    IF st.raised # "none" \/ remove_blocks THEN st
    ELSE IF ~ColumnLoads(chs, p[1], p[3]) THEN [st EXCEPT !.raised = "ChunkLoadError"]
    ELSE IF BlockAt(blks, p).base_name = <<"a","i","r">> THEN st
    ELSE AddEntry(st, p, box, GetStateIndex(st.pal, BlockAt(blks, p)),
                  IF p \in DOMAIN be_map THEN Some(be_map[p]) ELSE None)

\* twice an integer result, None kept
Doubled(r) == IF r.some THEN Some(2 * r.val) ELSE None

\* float(pos_tag[i].value), in halves; None standing for the exception.
\* Strings are those int() reads.
FloatOf(val) ==
    CASE val.t = "float" -> Some(val.h)
      [] val.t = "int" -> Some(2 * val.n)
      [] val.t = "str" -> Doubled(IntOfStr(val.s))
      [] OTHER -> None

\* the entry of an entity whose Pos has three elements, with fs what float()
\* made of them
EntityAt(ent, box, fs) ==
    IF \E a \in 1..3 : ~fs[a].some THEN <<>>
    ELSE IF ~(/\ 2 * box.min[1] <= fs[1].val /\ fs[1].val < 2 * box.max[1]
              /\ 2 * box.min[2] <= fs[2].val /\ fs[2].val < 2 * box.max[2]
              /\ 2 * box.min[3] <= fs[3].val /\ fs[3].val < 2 * box.max[3])
         THEN <<>>
         ELSE << [pos |-> <<fs[1].val - 2 * box.min[1], fs[2].val - 2 * box.min[2],
                            fs[3].val - 2 * box.min[3]>>,
                  blockPos |-> <<TruncHalves(fs[1].val) - box.min[1],
                                 TruncHalves(fs[2].val) - box.min[2],
                                 TruncHalves(fs[3].val) - box.min[3]>>,
                  nbt |-> ent.nbt.val] >>

\* the entries one entity adds to entities_list (none or one)
EntityEntries(ent, box) ==
    IF ~ent.nbt.some THEN <<>>
    ELSE IF ~ent.nbt.val.Pos.some THEN <<>>
    ELSE IF Len(ent.nbt.val.Pos.val) # 3 THEN <<>>
    ELSE EntityAt(ent, box, [a \in 1..3 |-> FloatOf(ent.nbt.val.Pos.val[a])])

\* the entities loop
CollectEntities(chs, box) ==
    LET locs == ChunkLocations(chs, {box})
        OfChunk(ch) ==
            LET G[j \in 0..Len(ch.entities)] ==
                    IF j = 0 THEN <<>>
                    ELSE G[j - 1] \o EntityEntries(ch.entities[j], box)
            IN G[Len(ch.entities)]
        F[i \in 0..Len(locs)] ==
            IF i = 0 THEN <<>>
            ELSE IF ~chs[locs[i]].loads THEN F[i - 1]
                 ELSE F[i - 1] \o OfChunk(chs[locs[i]])
    IN F[Len(locs)]

\* what an export leaves behind: the exception it raised ("none" when it
\* returned) and the file at out_path (None when there is none)
Returned(file) == [raised |-> "none", file |-> Some(file)]
Raised(exc, file) == [raised |-> exc, file |-> file]

\* the end of _export_java_structure_nbt: the document and nbt.save_to
SaveDocument(scan, box, entities_list, io) ==
    IF scan.raised # "none" THEN Raised(scan.raised, None)
    ELSE IF io = "save" THEN Raised("OSError", None)
    ELSE IF io = "save_partial" THEN Raised("OSError", Some([truncated |-> TRUE]))
    ELSE Returned([size |-> <<box.max[1] - box.min[1], box.max[2] - box.min[2],
                              box.max[3] - box.min[3]>>,
                   palette |-> scan.pal.palette,
                   blocks |-> scan.blocks_list,
                   entities |-> entities_list])

\* the three nested loops over the cells
ScanBox(cells, blks, chs, box, be_map, remove_blocks) ==
    LET S[n \in 0..Len(cells)] ==
            IF n = 0 THEN [raised |-> "none", pal |-> EmptyPalette, blocks_list |-> <<>>]
            ELSE ScanVoxel(S[n - 1], cells[n], blks, chs, box, be_map, remove_blocks)
    IN S[Len(cells)]

\* _export_java_structure_nbt.  io tells how nbt.save_to ends: "ok", "save"
\* (it raises, nothing written) or "save_partial" (it raises, a truncated
\* file is left)
ExportJavaStructureNbt(blks, chs, box, include_entities, remove_blocks, io) ==
    SaveDocument(ScanBox(ScanCells(box), blks, chs, box,
                         CollectBlockEntitiesInBox(chs, box), remove_blocks),
                 box,
                 IF include_entities THEN CollectEntities(chs, box) ELSE <<>>,
                 io)

(***************************************************************************)
(* The .mcstructure export: the chunks handed to the external encoder.     *)
(***************************************************************************)
\* _export_mcstructure
ExportMcstructure(chs, box, include_entities, io) ==
    LET locs == ChunkLocations(chs, {box})
        F[i \in 0..Len(locs)] ==
            IF i = 0 THEN <<>>
            ELSE IF ~chs[locs[i]].loads THEN F[i - 1]
                 ELSE Append(F[i - 1], <<chs[locs[i]].cx, chs[locs[i]].cz>>)
    IN IF io = "save" THEN Raised("OSError", None)
       ELSE IF io = "save_partial" THEN Raised("OSError", Some([truncated |-> TRUE]))
       ELSE Returned([region |-> box, include_entities |-> include_entities,
                      committed |-> F[Len(locs)]])

(***************************************************************************)
(* Locator specification: the two searches applied to bounded trees.       *)
(***************************************************************************)
MaxListLen == 2

LocKeys == { <<"N","a">>, <<"a">>, <<"b">> }
LocScalars == { IntTag(7), FloatTag(-3), StringTag(<<" ","x"," ">>),
                StringTag(<<" "," ">>), StringTag(<<" ","1","2">>) }
LocLists(S) == UNION { [1..n -> S] : n \in 1..MaxListLen }
LocListScalars == { IntTag(7), StringTag(<<" ","x"," ">>), StringTag(<<" ","1","2">>) }
LocInner ==
    LocScalars
    \cup { CompoundTag(<< <<k, s>> >>) : k \in LocKeys, s \in LocScalars }
    \cup { ListTag(l) : l \in LocLists(LocListScalars) }
LocTrees ==
    { CompoundTag(<< <<p[1], c[1]>>, <<p[2], c[2]>> >>) :
          p \in {q \in LocKeys \X LocKeys : q[1] # q[2]}, c \in LocInner \X LocInner }
    \cup { ListTag(<<c[1], c[2]>>) : c \in LocInner \X LocInner }
LocSubs == { << <<"a">> >>, << <<"n","a">>, <<"1">> >>, << <<"b">>, <<"0">> >> }

NotRun == [fn |-> "none"]

LocIdle == tree = IntTag(0) /\ subs = <<>> /\ located = NotRun
PalIdle == paletteState = EmptyPalette /\ pushes = <<>>
ExpIdle ==
    /\ blocks = <<>> /\ chunks = <<>> /\ selection = {}
    /\ theBox = SelectionBox(<<0, 0, 0>>, <<0, 0, 0>>)
    /\ exported = NotRun /\ markers = NotRun /\ collected = NotRun
RunIdle ==
    /\ options = [fmt_raw |-> "nbt", include_entities |-> TRUE, remove_blocks |-> FALSE]
    /\ files = {} /\ pc = "idle" /\ parsed = <<>> /\ idx = 0
    /\ progress = <<>> /\ outcomes = <<>>

LocInit ==
    /\ tree \in LocTrees
    /\ subs \in LocSubs
    /\ located = NotRun
    /\ PalIdle
    /\ ExpIdle
    /\ RunIdle

FindStr ==
    /\ located = NotRun
    /\ located' = [fn |-> "str", res |-> FindFirstStr(tree, subs)]
    /\ UNCHANGED <<tree, subs, palVars, worldVars, expVars, runVars>>

FindInt ==
    /\ located = NotRun
    /\ located' = [fn |-> "int", res |-> FindFirstInt(tree, subs)]
    /\ UNCHANGED <<tree, subs, palVars, worldVars, expVars, runVars>>

LocNext == FindStr \/ FindInt

SpecLocator == LocInit /\ [][LocNext]_vars

(***************************************************************************)
(* Palette specification: voxel states pushed through get_state_index      *)
(* during one export.                                                      *)
(***************************************************************************)
MaxPushes == 4

STONE == Block(<<"m">>, <<"s">>, <<>>)
DOOR == Block(<<"m">>, <<"d">>, << <<<<"f">>, <<"n">>>>, <<<<"h">>, <<"u">>>> >>)
PalBlocks ==
    { STONE, DOOR,
      Block(<<"m">>, <<"d">>, << <<<<"h">>, <<"u">>>>, <<<<"f">>, <<"n">>>> >>),
      Block(<<"m">>, <<"d">>, << <<<<"f">>, <<"s">>>>, <<<<"h">>, <<"u">>>> >>),
      Block(<<"n">>, <<"s">>, <<>>) }

PalInit ==
    /\ paletteState = EmptyPalette
    /\ pushes = <<>>
    /\ LocIdle
    /\ ExpIdle
    /\ RunIdle

\* one call of get_state_index during the scan
Push(b) ==
    /\ Len(pushes) < MaxPushes
    /\ paletteState' = GetStateIndex(paletteState, b).pal
    /\ pushes' = Append(pushes, [block |-> b, idx |-> GetStateIndex(paletteState, b).idx,
                                 before |-> paletteState.palette,
                                 after |-> paletteState'.palette])
    /\ UNCHANGED <<locVars, worldVars, expVars, runVars>>

PalNext == \E b \in PalBlocks : Push(b)

SpecPalette == PalInit /\ [][PalNext]_vars

\* equality of voxel states: the same namespace:base_name and the same
\* property pairs, whatever their order
SameState(b1, b2) ==
    /\ b1.namespace \o <<":">> \o b1.base_name = b2.namespace \o <<":">> \o b2.base_name
    /\ {b1.properties[i] : i \in DOMAIN b1.properties}
         = {b2.properties[i] : i \in DOMAIN b2.properties}

\* the pushes that brought a state not seen before
NovelPushes == { i \in DOMAIN pushes : \A j \in 1..(i - 1) :
                     ~SameState(pushes[j].block, pushes[i].block) }

\* C9: a state equal to an earlier one gets the earlier index and leaves the
\* palette unchanged; a novel state gets the current palette length and is
\* appended; indices are 0-based and dense, fresh indices strictly increase,
\* index i denotes the i-th distinct state in first-seen order, and an index
\* once assigned is what every later push of that state returns.
C9_PaletteIndices ==
    /\ \A i \in DOMAIN pushes :
          IF i \in NovelPushes
          THEN /\ pushes[i].idx = Len(pushes[i].before)
               /\ pushes[i].after =
                    Append(pushes[i].before, UniversalBlockToJavaState(pushes[i].block))
          ELSE /\ pushes[i].after = pushes[i].before
               /\ \A j \in 1..(i - 1) :
                      SameState(pushes[j].block, pushes[i].block)
                          => pushes[i].idx = pushes[j].idx
    /\ {pushes[i].idx : i \in DOMAIN pushes} = 0..(Len(paletteState.palette) - 1)
    /\ \A i, j \in NovelPushes : i < j => pushes[i].idx < pushes[j].idx
    /\ \A i \in NovelPushes :
          /\ pushes[i].idx = Cardinality({j \in NovelPushes : j < i})
          /\ paletteState.palette[pushes[i].idx + 1] = UniversalBlockToJavaState(pushes[i].block)

\* a scan that met a state again with its properties in another order,
\* after two distinct states
C9_Witness ==
    /\ Len(pushes) = MaxPushes
    /\ Cardinality(NovelPushes) = 3
    /\ \E i \in DOMAIN pushes : \E j \in 1..(i - 1) :
          /\ SameState(pushes[j].block, pushes[i].block)
          /\ pushes[j].block # pushes[i].block
          /\ pushes[i].idx = 1

(***************************************************************************)
(* Export specifications: _export_java_structure_nbt and                   *)
(* _iter_structure_blocks applied to bounded worlds.  SpecVoxels varies    *)
(* the voxels of the box; SpecFaces varies the position of one entity and  *)
(* of one block entity around the faces of the box.                        *)
(***************************************************************************)
MaxDim == 2
MaxCells == 8

STRUCTURE_BLOCK == Block(<<"u","n","i","v","e","r","s","a","l","_","m","i","n","e","c","r","a","f","t">>, <<"s","t","r","u","c","t","u","r","e","_","b","l","o","c","k">>, <<>>)

\* the chunks around the origin, all empty
Chunk(cx, cz, loads) ==
    [cx |-> cx, cz |-> cz, loads |-> loads, block_entities |-> <<>>, entities |-> <<>>]
EmptyChunks(failing) ==
    << Chunk(0, 0, <<0, 0>> \notin failing), Chunk(-1, 0, <<-1, 0>> \notin failing),
       Chunk(0, 1, <<0, 1>> \notin failing), Chunk(-1, 1, <<-1, 1>> \notin failing) >>

\* the world with block entity be, resp. entity e, put into the chunk of
\* column (x, z)
WithBlockEntity(chs, be) ==
    [i \in DOMAIN chs |->
        IF chs[i].cx = ChunkCoord(be.pos[1]) /\ chs[i].cz = ChunkCoord(be.pos[3])
        THEN [chs[i] EXCEPT !.block_entities = Append(@, be)] ELSE chs[i]]
WithEntity(chs, e, x, z) ==
    [i \in DOMAIN chs |->
        IF chs[i].cx = ChunkCoord(x) /\ chs[i].cz = ChunkCoord(z)
        THEN [chs[i] EXCEPT !.entities = Append(@, e)] ELSE chs[i]]

\* floor of h/2
FloorHalves(h) == h \div 2

\* a block entity tag with the absolute position NBT carries
BlockEntityTag(p) ==
    CompoundTag(<< <<<<"i","d">>, StringTag(<<"c">>)>>, <<<<"x">>, IntTag(p[1])>>,
                   <<<<"y">>, IntTag(p[2])>>, <<<<"z">>, IntTag(p[3])>> >>)

Entity(posTag) == [nbt |-> Some([Pos |-> posTag])]

ExpOrigin == <<-2, 0, 15>>
VoxelBoxes ==
    { SelectionBox(ExpOrigin, <<ExpOrigin[1] + d[1], ExpOrigin[2] + d[2], ExpOrigin[3] + d[3]>>) :
          d \in {e \in (1..MaxDim) \X (1..MaxDim) \X (1..MaxDim) :
                     e[1] * e[2] * e[3] <= MaxCells} }
CellsOf(b) == {ScanCells(b)[n] : n \in DOMAIN ScanCells(b)}

FaceBoxes == { SelectionBox(<<-2, 0, 15>>, <<0, 2, 17>>),
               SelectionBox(<<1, 64, 1>>, <<3, 65, 2>>) }
\* coordinates at, next to and between the faces of box b on axis a, in
\* units of 1/scale
FaceCoords(b, a, scale) ==
    { scale * b.min[a] - 1, scale * b.min[a], scale * b.min[a] + 1,
      scale * b.max[a] - 1, scale * b.max[a] }

\* worlds that vary the voxels of the theBox
VoxelInit ==
    /\ theBox \in VoxelBoxes
    /\ selection = {theBox}
    /\ blocks \in [CellsOf(theBox) -> {AIR, STONE, DOOR}]
    /\ chunks = WithBlockEntity(EmptyChunks({}),
                                [pos |-> theBox.min, nbt |-> Some(BlockEntityTag(theBox.min))])

\* worlds that vary the position of one entity around the faces of the theBox
EntityInit ==
    /\ theBox \in FaceBoxes
    /\ selection = {theBox}
    /\ blocks = (theBox.min :> STONE)
    /\ \E q \in FaceCoords(theBox, 1, 2) \X FaceCoords(theBox, 2, 2) \X FaceCoords(theBox, 3, 2) :
       \E failing \in {{}, {<<-1, 1>>}} :
          chunks = WithEntity(EmptyChunks(failing),
                              Entity(Some(<<[t |-> "float", h |-> q[1]],
                                            [t |-> "float", h |-> q[2]],
                                            [t |-> "float", h |-> q[3]]>>)),
                              FloorHalves(q[1]), FloorHalves(q[3]))

\* entities the export passes over
OddEntities ==
    { [nbt |-> None], Entity(None),
      Entity(Some(<<[t |-> "float", h |-> 0], [t |-> "float", h |-> 0]>>)),
      Entity(Some(<<[t |-> "int", n |-> -1], [t |-> "str", s |-> <<"1">>],
                    [t |-> "float", h |-> 31]>>)),
      Entity(Some(<<[t |-> "float", h |-> -3], [t |-> "str", s |-> <<"x">>],
                    [t |-> "float", h |-> 31]>>)) }
OddEntityInit ==
    /\ theBox = SelectionBox(<<-2, 0, 15>>, <<0, 2, 17>>)
    /\ selection = {theBox}
    /\ blocks = (theBox.min :> STONE)
    /\ \E e \in OddEntities : chunks = WithEntity(EmptyChunks({}), e, -1, 15)

\* worlds that vary the position of one structure block around the faces of
\* the box and of a second box of the selection
MarkerInit ==
    /\ theBox \in FaceBoxes
    /\ selection \in {{theBox}, {theBox, SelectionBox(<<-2, 2, 15>>, <<-1, 3, 16>>)}}
    /\ \E p \in FaceCoords(theBox, 1, 1) \X FaceCoords(theBox, 2, 1) \X FaceCoords(theBox, 3, 1) :
       \E nbtTag \in {None, Some(BlockEntityTag(p))} :
       \E failing \in {{}, {<<-1, 1>>}} :
          /\ blocks \in {(p :> STRUCTURE_BLOCK), (p :> STONE)}
          /\ chunks = WithBlockEntity(EmptyChunks(failing), [pos |-> p, nbt |-> nbtTag])

\* _export_java_structure_nbt on the box
ExportNbt(include_entities, remove_blocks) ==
    /\ exported = NotRun /\ markers = NotRun /\ collected = NotRun
    /\ exported' = [fn |-> "nbt", include_entities |-> include_entities,
                    remove_blocks |-> remove_blocks,
                    res |-> ExportJavaStructureNbt(blocks, chunks, theBox, include_entities,
                                                   remove_blocks, "ok")]
    /\ UNCHANGED <<locVars, palVars, worldVars, theBox, markers, collected, runVars>>

\* _iter_structure_blocks on the selection
FindMarkers ==
    /\ exported = NotRun /\ markers = NotRun /\ collected = NotRun
    /\ markers' = [fn |-> "iter", res |-> IterStructureBlocks(blocks, chunks, selection)]
    /\ UNCHANGED <<locVars, palVars, worldVars, theBox, exported, collected, runVars>>

\* _collect_block_entities_in_box on the box
CollectBlockEntities ==
    /\ exported = NotRun /\ markers = NotRun /\ collected = NotRun
    /\ collected' = [fn |-> "collect", res |-> CollectBlockEntitiesInBox(chunks, theBox)]
    /\ UNCHANGED <<locVars, palVars, worldVars, theBox, exported, markers, runVars>>

VoxInit ==
    /\ VoxelInit
    /\ exported = NotRun /\ markers = NotRun /\ collected = NotRun
    /\ LocIdle /\ PalIdle /\ RunIdle

VoxNext == \E ie \in BOOLEAN, rb \in BOOLEAN : ExportNbt(ie, rb)

SpecVoxels == VoxInit /\ [][VoxNext]_vars

FaceInit ==
    /\ EntityInit \/ OddEntityInit \/ MarkerInit
    /\ exported = NotRun /\ markers = NotRun /\ collected = NotRun
    /\ LocIdle /\ PalIdle /\ RunIdle

FaceNext ==
    \/ \E ie \in BOOLEAN, rb \in BOOLEAN : ExportNbt(ie, rb)
    \/ FindMarkers
    \/ CollectBlockEntities

SpecFaces == FaceInit /\ [][FaceNext]_vars

(***************************************************************************)
(* The run: export_structures_from_structure_blocks, from the discovery of *)
(* the structure blocks to the last progress report.                       *)
(***************************************************************************)
MaxMarkers == 2

\* structure block tags: as Java writes them, as Bedrock writes them
\* (nested, name to be trimmed), with a name of dots and sizes to coerce,
\* with a size of 0, with a size that is no number, with a blank name
TAG_JAVA ==
    CompoundTag(<< <<<<"i","d">>, StringTag(<<"s","b">>)>>,
        <<<<"n","a","m","e">>, StringTag(<<"n","s",":","a">>)>>,
        <<<<"p","o","s","X">>, IntTag(0)>>,
        <<<<"p","o","s","Y">>, IntTag(1)>>,
        <<<<"p","o","s","Z">>, IntTag(0)>>,
        <<<<"s","i","z","e","X">>, IntTag(1)>>,
        <<<<"s","i","z","e","Y">>, IntTag(1)>>,
        <<<<"s","i","z","e","Z">>, IntTag(1)>> >>)
TAG_BEDROCK ==
    CompoundTag(<< <<<<"i","d">>, StringTag(<<"s","b">>)>>,
        <<<<"d","a","t","a">>, CompoundTag(<< <<<<"s","t","r","u","c","t","u","r","e","N","a","m","e">>, StringTag(<<" ","a"," ">>)>>,
        <<<<"x","S","t","r","u","c","t","u","r","e","O","f","f","s","e","t">>, IntTag(-1)>>,
        <<<<"y","S","t","r","u","c","t","u","r","e","O","f","f","s","e","t">>, IntTag(0)>>,
        <<<<"z","S","t","r","u","c","t","u","r","e","O","f","f","s","e","t">>, IntTag(0)>>,
        <<<<"x","S","t","r","u","c","t","u","r","e","S","i","z","e">>, IntTag(2)>>,
        <<<<"y","S","t","r","u","c","t","u","r","e","S","i","z","e">>, IntTag(1)>>,
        <<<<"z","S","t","r","u","c","t","u","r","e","S","i","z","e">>, IntTag(1)>> >>)>> >>)
TAG_DOTS ==
    CompoundTag(<< <<<<"n","a","m","e">>, StringTag(<<".">>)>>,
        <<<<"p","o","s","X">>, IntTag(0)>>,
        <<<<"p","o","s","Y">>, FloatTag(-1)>>,
        <<<<"p","o","s","Z">>, IntTag(0)>>,
        <<<<"s","i","z","e","X">>, FloatTag(3)>>,
        <<<<"s","i","z","e","Y">>, StringTag(<<" ","1">>)>>,
        <<<<"s","i","z","e","Z">>, IntTag(1)>> >>)
TAG_ZERO_SIZE ==
    CompoundTag(<< <<<<"n","a","m","e">>, StringTag(<<"z">>)>>,
        <<<<"p","o","s","X">>, IntTag(0)>>,
        <<<<"p","o","s","Y">>, IntTag(0)>>,
        <<<<"p","o","s","Z">>, IntTag(0)>>,
        <<<<"s","i","z","e","X">>, IntTag(1)>>,
        <<<<"s","i","z","e","Y">>, IntTag(0)>>,
        <<<<"s","i","z","e","Z">>, IntTag(1)>> >>)
TAG_NO_SIZE ==
    CompoundTag(<< <<<<"n","a","m","e">>, StringTag(<<"m">>)>>,
        <<<<"p","o","s","X">>, IntTag(0)>>,
        <<<<"p","o","s","Y">>, IntTag(0)>>,
        <<<<"p","o","s","Z">>, IntTag(0)>>,
        <<<<"s","i","z","e","X">>, IntTag(1)>>,
        <<<<"s","i","z","e","Y">>, IntTag(1)>>,
        <<<<"s","i","z","e","Z">>, StringTag(<<"x">>)>> >>)
TAG_NO_NAME ==
    CompoundTag(<< <<<<"n","a","m","e">>, StringTag(<<" "," ">>)>>,
        <<<<"N","a","m","e">>, IntTag(1)>>,
        <<<<"p","o","s","X">>, IntTag(0)>>,
        <<<<"p","o","s","Y">>, IntTag(0)>>,
        <<<<"p","o","s","Z">>, IntTag(0)>>,
        <<<<"s","i","z","e","X">>, IntTag(1)>>,
        <<<<"s","i","z","e","Y">>, IntTag(1)>>,
        <<<<"s","i","z","e","Z">>, IntTag(1)>> >>)

\* what may stand at a marker position: the block and the block entity NBT
Specimens ==
    { [block |-> STRUCTURE_BLOCK, nbt |-> Some(t)] :
          t \in {TAG_JAVA, TAG_BEDROCK, TAG_DOTS, TAG_ZERO_SIZE, TAG_NO_SIZE, TAG_NO_NAME} }
    \cup { [block |-> STRUCTURE_BLOCK, nbt |-> None],
           [block |-> STONE, nbt |-> Some(TAG_JAVA)] }

MarkerSlots == << <<0, 64, 0>>, <<1, 64, 0>>, <<-1, 64, 0>>, <<-2, 64, 0>> >>
RunSelection == {SelectionBox(<<-2, 64, 0>>, <<2, 65, 1>>)}
RunChunks(order, failing) ==
    [i \in 1..2 |-> Chunk(order[i], 0, order[i] \notin failing)]

RECURSIVE PlaceMarkers(_, _, _)
PlaceMarkers(chs, sp, k) ==
    IF k > Len(sp) THEN chs
    ELSE PlaceMarkers(WithBlockEntity(chs, [pos |-> MarkerSlots[k], nbt |-> sp[k].nbt]),
                      sp, k + 1)

\* the files of an earlier run
OldFiles == { <<"a">> \o EXT_NBT, <<"a">> \o EXT_MCSTRUCTURE }

RunInit ==
    /\ \E sp \in [1..MaxMarkers -> Specimens] :
       \E order \in {<<0, -1>>, <<-1, 0>>} :
       \E failing \in {{}, {-1}} :
          /\ blocks = [p \in {MarkerSlots[k] : k \in 1..MaxMarkers} |->
                          sp[CHOOSE k \in 1..MaxMarkers : MarkerSlots[k] = p].block]
                      @@ (<<0, 65, 0>> :> STONE) @@ (<<-1, 65, 0>> :> DOOR)
          /\ chunks = PlaceMarkers(RunChunks(order, failing), sp, 1)
    /\ selection = RunSelection
    /\ options \in { [fmt_raw |-> "mcstructure", include_entities |-> TRUE,
                      remove_blocks |-> FALSE],
                     [fmt_raw |-> "nbt", include_entities |-> TRUE, remove_blocks |-> FALSE],
                     [fmt_raw |-> "nbt", include_entities |-> TRUE, remove_blocks |-> TRUE] }
    /\ files \in {{}, OldFiles}
    /\ pc = "start" /\ parsed = <<>> /\ idx = 0 /\ progress = <<>> /\ outcomes = <<>>
    /\ theBox = SelectionBox(<<0, 0, 0>>, <<0, 0, 0>>)
    /\ exported = NotRun /\ markers = NotRun /\ collected = NotRun
    /\ LocIdle /\ PalIdle

\* the list comprehension that keeps the parsed structure blocks
KeepParsed(found) ==
    LET F[i \in 0..Len(found)] ==
            IF i = 0 THEN <<>>
            ELSE IF found[i].parsed.some
                 THEN Append(F[i - 1], [pos |-> found[i].pos, data |-> found[i].parsed.val])
                 ELSE F[i - 1]
    IN F[Len(found)]

\* the body up to the loop: os.makedirs(out_dir) may raise, which reaches
\* the caller; no parsed structure block ends the run
Discover(makedirs_ok) ==
    /\ pc = "start"
    /\ IF ~makedirs_ok
       THEN /\ pc' = "raised"
            /\ UNCHANGED <<parsed, idx>>
       ELSE /\ parsed' = KeepParsed(IterStructureBlocks(blocks, chunks, selection))
            /\ IF parsed' = <<>> THEN pc' = "done" /\ idx' = idx
               ELSE pc' = "attempt" /\ idx' = 1
    /\ UNCHANGED <<locVars, palVars, worldVars, expVars, options, files, progress, outcomes>>

\* a bug the failure claims must notice: no handler around the export
AfterAttemptUncaught(raised) == IF raised = "none" THEN "yield" ELSE "raised"

\* where the loop body stands after the try statement: `except Exception`
\* takes whatever the export raised
AfterAttempt(raised) == "yield"

\* the box of a record
RecordBox(rec) ==
    SelectionBox([a \in 1..3 |-> rec.pos[a] + rec.data.offset[a]],
                 [a \in 1..3 |-> rec.pos[a] + rec.data.offset[a] + rec.data.size[a]])

\* f"{safe}.mcstructure" resp. f"{safe}.nbt"
RecordFilename(name, fmt_raw) ==
    SafeFilename(StripNamespace(name))
        \o (IF fmt_raw = "mcstructure" THEN EXT_MCSTRUCTURE ELSE EXT_NBT)

\* the export the format asks for
ExportRecord(blks, chs, bx, opts, io) ==
    IF opts.fmt_raw = "mcstructure"
    THEN ExportMcstructure(chs, bx, opts.include_entities, io)
    ELSE ExportJavaStructureNbt(blks, chs, bx, opts.include_entities,
                                opts.remove_blocks, io)

\* the loop body up to the yield, for record i
Attempt(io) ==
    /\ pc = "attempt"
    /\ \E rec \in {parsed[idx]} :
       \E bx \in {RecordBox(rec)} :
       \E filename \in {RecordFilename(rec.data.name, options.fmt_raw)} :
       \E out_path \in {UniquePath(files, filename)} :
       \E res \in {ExportRecord(blocks, chunks, bx, options, io)} :
          /\ outcomes' = Append(outcomes,
                                [name |-> rec.data.name, pos |-> rec.pos, region |-> bx,
                                 filename |-> filename, out_path |-> out_path,
                                 existing |-> files, io |-> io,
                                 raised |-> res.raised, file |-> res.file])
          /\ files' = IF res.file.some THEN files \cup {out_path} ELSE files
          /\ pc' = AfterAttempt(res.raised)
    /\ UNCHANGED <<locVars, palVars, worldVars, expVars, options, parsed, idx, progress>>

\* a bug the progress claims must notice: the fraction counted from 0
ProgressValueFromZero(i, total) == [num |-> i - 1, den |-> total]

\* i / total
ProgressValue(i, total) == [num |-> i, den |-> total]

\* yield i / total, and the step of the loop
YieldProgress ==
    /\ pc = "yield"
    /\ progress' = Append(progress, ProgressValue(idx, Len(parsed)))
    /\ IF idx < Len(parsed) THEN pc' = "attempt" /\ idx' = idx + 1
       ELSE pc' = "done" /\ idx' = idx
    /\ UNCHANGED <<locVars, palVars, worldVars, expVars, options, files, parsed, outcomes>>

Next ==
    \/ \E makedirs_ok \in BOOLEAN : Discover(makedirs_ok)
    \/ \E io \in {"ok", "save", "save_partial"} : Attempt(io)
    \/ YieldProgress

Spec == RunInit /\ [][Next]_vars

(***************************************************************************)
(* Claims about the run.                                                   *)
(***************************************************************************)
\* the attempts made so far that ended in an exception
Failed == { k \in DOMAIN outcomes : outcomes[k].raised # "none" }

\* C1: an exception raised while record k is processed does not end the run:
\* the run ends with an exception only before the first record is attempted,
\* the k-th attempt is about the k-th record whatever became of the earlier
\* ones, and a run that is done has attempted every record.
C1_FailureDoesNotEndRun ==
    /\ pc = "raised" => outcomes = <<>>
    /\ Len(outcomes) = (IF pc = "attempt" THEN idx - 1 ELSE idx)
    /\ \A k \in DOMAIN outcomes :
           outcomes[k].pos = parsed[k].pos /\ outcomes[k].name = parsed[k].data.name
    /\ pc = "done" => Len(outcomes) = Len(parsed)

\* a record failed and a later record was attempted, in a run that is done
C1_Witness ==
    /\ pc = "done"
    /\ \E k \in Failed : k < Len(outcomes)
    /\ \E k \in Failed : outcomes[k].raised = "ChunkLoadError"

\* C2: progress is reported once per record, after its attempt and before
\* the next record starts; the i-th value is i/total, so the values increase
\* strictly, the first is > 0 and the last is 1.
C2_ProgressPerRecord ==
    /\ Len(progress) = (IF pc = "yield" THEN Len(outcomes) - 1 ELSE Len(outcomes))
    /\ pc = "attempt" => Len(progress) = idx - 1
    /\ \A i \in DOMAIN progress :
           progress[i].den = Len(parsed) /\ progress[i].num = i
    /\ \A i \in DOMAIN progress : \A j \in DOMAIN progress :
           i < j => progress[i].num * progress[j].den < progress[j].num * progress[i].den
    /\ progress # <<>> => progress[1].num > 0
    /\ (pc = "done" /\ parsed # <<>>) =>
           /\ Len(progress) = Len(parsed)
           /\ progress[Len(progress)].num = progress[Len(progress)].den

\* two records, the first failed, both reported
C2_Witness ==
    /\ pc = "done"
    /\ Len(progress) = 2
    /\ 1 \in Failed

\* C3: a chunk that fails to load never fails the record: when writing the
\* file succeeds, the export raises nothing and leaves the record's file.
C3_ChunkFailureNotFatal ==
    \A k \in DOMAIN outcomes :
        outcomes[k].io = "ok" => outcomes[k].raised = "none" /\ outcomes[k].file.some

\* the sanitized identifier and the extension of the k-th attempt
SafeOf(k) == SafeFilename(StripNamespace(outcomes[k].name))
ExtOf == IF options.fmt_raw = "mcstructure" THEN EXT_MCSTRUCTURE ELSE EXT_NBT

\* C4: the path chosen for a record does not exist when it is chosen: it is
\* <name><ext> if that is free, otherwise <name>_N<ext> for the smallest free
\* N >= 1; two records of one name that are written get different paths.
C4_FreePathSuffixBeforeExt ==
    \A k \in DOMAIN outcomes :
        LET o == outcomes[k] IN
        /\ o.out_path \notin o.existing
        /\ SafeOf(k) \o ExtOf \notin o.existing => o.out_path = SafeOf(k) \o ExtOf
        /\ SafeOf(k) \o ExtOf \in o.existing =>
               \E n \in 1..(Cardinality(o.existing) + 1) :
                   /\ o.out_path = Candidate(SafeOf(k), n, ExtOf)
                   /\ \A m \in 1..(n - 1) : Candidate(SafeOf(k), m, ExtOf) \in o.existing
        /\ \A j \in 1..(k - 1) :
               (outcomes[j].file.some /\ o.file.some) => outcomes[j].out_path # o.out_path

\* what the Locator finds in a tag
FoundName(tag) == FindFirstStr(tag, NAME_KEYS)
FoundInts(tag) ==
    << FindFirstInt(tag, OFFSET_X_KEYS), FindFirstInt(tag, OFFSET_Y_KEYS),
       FindFirstInt(tag, OFFSET_Z_KEYS), FindFirstInt(tag, SIZE_X_KEYS),
       FindFirstInt(tag, SIZE_Y_KEYS), FindFirstInt(tag, SIZE_Z_KEYS) >>

\* an identifier, the six integers, every size component > 0
ResolvedBy(name, ints) ==
    /\ name.some
    /\ \A i \in 1..6 : ints[i].some
    /\ \A i \in 4..6 : ints[i].val > 0
Resolved(tag) == ResolvedBy(FoundName(tag), FoundInts(tag))

\* the marker candidates of the run, in encounter order, each with what the
\* Locator finds in it
Found(cands) ==
    [i \in DOMAIN cands |-> [pos |-> cands[i].pos, name |-> FoundName(cands[i].tag),
                             ints |-> FoundInts(cands[i].tag)]]
Candidates == Found(IterStructureBlocks(blocks, chunks, selection))

\* the candidates among the first n that are resolved
ResolvedUpTo(cands, n) == { i \in 1..n : ResolvedBy(cands[i].name, cands[i].ints) }

\* the records recs are the resolved candidates, in encounter order
RecordsOf(recs, cands) ==
    /\ Len(recs) = Cardinality(ResolvedUpTo(cands, Len(cands)))
    /\ \A i \in ResolvedUpTo(cands, Len(cands)) :
           /\ recs[Cardinality(ResolvedUpTo(cands, i))].pos = cands[i].pos
           /\ recs[Cardinality(ResolvedUpTo(cands, i))].data =
                  [name |-> cands[i].name.val,
                   offset |-> <<cands[i].ints[1].val, cands[i].ints[2].val,
                                cands[i].ints[3].val>>,
                   size |-> <<cands[i].ints[4].val, cands[i].ints[5].val,
                              cands[i].ints[6].val>>]

\* C6: a candidate yields a record iff an identifier and the six integers
\* are found and every size component is > 0; the others are dropped and the
\* rest are kept in encounter order (the discovery step), the records stay
\* as discovered, and every record of the loop has sizes > 0 and so a box
\* that is not empty.
C6_RecordIffResolved ==
    [][/\ (pc = "start" /\ pc' # "raised") => RecordsOf(parsed', Candidates)
       /\ pc # "start" => parsed' = parsed
       /\ \A k \in DOMAIN parsed' : \A a \in 1..3 : parsed'[k].data.size[a] > 0
       /\ \A k \in DOMAIN outcomes' :
              \A a \in 1..3 : outcomes'[k].region.min[a] < outcomes'[k].region.max[a]
      ]_vars

\* a candidate dropped for a size of 0, and after it one that reached the
\* loop and was exported
DroppedThenKept(cands) ==
    /\ Len(cands) = 2
    /\ cands[1].name.some
    /\ \A i \in 1..6 : cands[1].ints[i].some
    /\ \E i \in 4..6 : cands[1].ints[i].val = 0
    /\ ResolvedBy(cands[2].name, cands[2].ints)
    /\ outcomes[1].pos = cands[2].pos

C6_Witness == pc = "done" /\ Len(outcomes) = 1 /\ DroppedThenKept(Candidates)

(***************************************************************************)
(* Claims about the export of one box.                                     *)
(***************************************************************************)
\* the document written by the export under way, when it wrote one
Wrote == exported # NotRun /\ exported.res.raised = "none"
Doc == exported.res.file.val

\* min <= q < max on every axis, q counted in units of 1/scale
HalfOpen(b, q, scale) ==
    \A a \in 1..3 : scale * b.min[a] <= q[a] /\ q[a] < scale * b.max[a]

AllBlockEntities ==
    UNION { {chunks[i].block_entities[j] : j \in DOMAIN chunks[i].block_entities} :
            i \in {k \in DOMAIN chunks : chunks[k].loads} }
AllEntities ==
    UNION { {chunks[i].entities[j] : j \in DOMAIN chunks[i].entities} :
            i \in {k \in DOMAIN chunks : chunks[k].loads} }
\* the entities with a position of three numbers, and that position in halves
Positioned ==
    { e \in AllEntities :
        /\ e.nbt.some /\ e.nbt.val.Pos.some /\ Len(e.nbt.val.Pos.val) = 3
        /\ \A a \in 1..3 : FloatOf(e.nbt.val.Pos.val[a]).some }
PosOf(e) == [a \in 1..3 |-> FloatOf(e.nbt.val.Pos.val[a]).val]

\* C5: the exported block position of every free-floating object in the box
\* is floor(position) - box.min on each axis, and so 0 <= blockPos < size.
C5_BlockPosIsFloor ==
    Wrote =>
      \A i \in DOMAIN Doc.entities : \A a \in 1..3 :
         LET e == Doc.entities[i]
         IN /\ e.blockPos[a] = FloorHalves(e.pos[a] + 2 * theBox.min[a]) - theBox.min[a]
            /\ 0 <= e.blockPos[a] /\ e.blockPos[a] < Doc.size[a]

\* (y, z, x) of p before (y, z, x) of q in lexicographic order
ScanBefore(p, q) ==
    \/ p[2] < q[2]
    \/ p[2] = q[2] /\ p[3] < q[3]
    \/ p[2] = q[2] /\ p[3] = q[3] /\ p[1] < q[1]

NonEmptyCells == { p \in CellsOf(theBox) : BlockAt(blocks, p).base_name # <<"a","i","r">> }
RelPos(p) == <<p[1] - theBox.min[1], p[2] - theBox.min[2], p[3] - theBox.min[3]>>

\* C8: with 'remove blocks' off the blocks list holds exactly one entry for
\* each non-empty voxel of the box and none for empty voxels, in strictly
\* increasing lexicographic order of (y, z, x) of the relative positions.
C8_ScanOrder ==
    (Wrote /\ ~exported.remove_blocks) =>
      /\ {Doc.blocks[i].pos : i \in DOMAIN Doc.blocks} = {RelPos(p) : p \in NonEmptyCells}
      /\ Len(Doc.blocks) = Cardinality(NonEmptyCells)
      /\ \A i, j \in DOMAIN Doc.blocks :
            i < j => ScanBefore(Doc.blocks[i].pos, Doc.blocks[j].pos)

\* a written 2x2x2 box with an empty voxel and entries in every layer, row
\* and column
C8_Witness ==
    /\ Wrote /\ ~exported.remove_blocks
    /\ Doc.size = <<2, 2, 2>>
    /\ Len(Doc.blocks) = 5
    /\ BlockAt(blocks, theBox.min) = AIR
    /\ \A a \in 1..3 : {Doc.blocks[i].pos[a] : i \in DOMAIN Doc.blocks} = {0, 1}

\* C11: every document written by the structure-template export is
\* well-formed: size is box.max - box.min, every state index is in
\* [0, palette length), every palette entry is referenced by a block entry,
\* no palette entry is air, every relative position satisfies 0 <= pos < size
\* on every axis; with 'remove blocks' on, blocks and palette are empty and
\* size is as without it.
C11_WellFormedDocument ==
    Wrote =>
      /\ Doc.size = <<theBox.max[1] - theBox.min[1], theBox.max[2] - theBox.min[2],
                      theBox.max[3] - theBox.min[3]>>
      /\ \A i \in DOMAIN Doc.blocks :
            /\ 0 <= Doc.blocks[i].state /\ Doc.blocks[i].state < Len(Doc.palette)
            /\ \A a \in 1..3 : 0 <= Doc.blocks[i].pos[a] /\ Doc.blocks[i].pos[a] < Doc.size[a]
      /\ \A n \in DOMAIN Doc.palette :
            /\ \E i \in DOMAIN Doc.blocks : Doc.blocks[i].state = n - 1
            /\ StripNamespace(Doc.palette[n].Name) # <<"a","i","r">>
      /\ exported.remove_blocks => Doc.blocks = <<>> /\ Doc.palette = <<>>

\* a written box with an empty voxel, two states in the palette and a state
\* shared by two entries, the last voxel of the box among the entries
C11_Witness ==
    /\ Wrote /\ ~exported.remove_blocks /\ ~exported.include_entities
    /\ NonEmptyCells # CellsOf(theBox)
    /\ Len(Doc.palette) = 2
    /\ \E i, j \in DOMAIN Doc.blocks : i # j /\ Doc.blocks[i].state = Doc.blocks[j].state
    /\ \E i \in DOMAIN Doc.blocks :
           \A a \in 1..3 : Doc.blocks[i].pos[a] = Doc.size[a] - 1

\* C10: membership in a box is half-open on all three axes, for the
\* selection filter of the marker discovery, for the block entity collection
\* and for the (real-valued) entity filter: min <= p < max on every axis.
C10_HalfOpenMembership ==
    /\ markers # NotRun =>
          {markers.res[i].pos : i \in DOMAIN markers.res}
            = { be.pos : be \in { c \in AllBlockEntities :
                    /\ c.nbt.some
                    /\ BlockAt(blocks, c.pos) = STRUCTURE_BLOCK
                    /\ \E b \in selection : HalfOpen(b, c.pos, 1) } }
    /\ collected # NotRun =>
          DOMAIN collected.res
            = { be.pos : be \in { c \in AllBlockEntities : HalfOpen(theBox, c.pos, 1) } }
    /\ (Wrote /\ exported.include_entities) =>
          {[a \in 1..3 |-> Doc.entities[i].pos[a] + 2 * theBox.min[a]] :
               i \in DOMAIN Doc.entities}
            = { PosOf(e) : e \in { c \in Positioned : HalfOpen(theBox, PosOf(c), 2) } }

\* a structure block on the upper x face of the box, inside on the other
\* axes and at the lower y face, that the discovery left out
C10_Witness ==
    /\ markers # NotRun
    /\ markers.res = <<>>
    /\ \E be \in AllBlockEntities :
          /\ be.nbt.some
          /\ BlockAt(blocks, be.pos) = STRUCTURE_BLOCK
          /\ be.pos[1] = theBox.max[1]
          /\ be.pos[2] = theBox.min[2]
          /\ theBox.min[3] <= be.pos[3] /\ be.pos[3] < theBox.max[3]

(***************************************************************************)
(* The nodes of a tree named by their paths (child positions from the      *)
(* root), and depth-first pre-order on paths: a node comes before its      *)
(* descendants, and an earlier child with all its descendants comes        *)
(* before a later child.                                                   *)
(***************************************************************************)
ChildKey(t, i) == IF t.kind = "compound" THEN t.items[i][1] ELSE StrNat(i - 1)
ChildVal(t, i) == IF t.kind = "compound" THEN t.items[i][2] ELSE t.items[i]

RECURSIVE PathsOf(_)
PathsOf(t) ==
    IF ~Descends(t) THEN {}
    ELSE UNION { {<<i>>} \cup { <<i>> \o p : p \in PathsOf(ChildVal(t, i)) } :
                 i \in DOMAIN t.items }

RECURSIVE NodeAt(_, _)
NodeAt(t, p) ==
    IF Len(p) = 1 THEN [key |-> ChildKey(t, p[1]), value |-> ChildVal(t, p[1])]
    ELSE NodeAt(ChildVal(t, p[1]), Tail(p))

PreOrderBefore(p, q) ==
    \/ Len(p) < Len(q) /\ SubSeq(q, 1, Len(p)) = p
    \/ \E i \in 1..Min(Len(p), Len(q)) :
           /\ SubSeq(p, 1, i - 1) = SubSeq(q, 1, i - 1)
           /\ p[i] < q[i]

FirstInPreOrder(P) == CHOOSE p \in P : \A q \in P \ {p} : PreOrderBefore(p, q)

\* the nodes whose key matches, and those among them whose value qualifies
MatchingPaths == { p \in PathsOf(tree) : KeyMatches(NodeAt(tree, p).key, subs) }
StrQualifies(v) == v.kind = "scalar" /\ v.val.t = "str" /\ Strip(v.val.s) # <<>>
IntQualifies(v) == v.kind = "scalar" /\ IntOf(v.val).some
StrPaths == { p \in MatchingPaths : StrQualifies(NodeAt(tree, p).value) }
IntPaths == { p \in MatchingPaths : IntQualifies(NodeAt(tree, p).value) }

\* C7: _find_first_str / _find_first_int return the (trimmed, resp.
\* int-coerced) value of the first node in depth-first pre-order whose
\* lowercased key or stringified index contains one of the substrings and
\* whose value qualifies; matching nodes with a non-qualifying value are
\* passed over; the result is None exactly when there is no such node.
C7_FirstMatchInPreOrder ==
    /\ located.fn = "str" =>
          IF StrPaths = {} THEN located.res = None
          ELSE located.res =
                 Some(Strip(NodeAt(tree, FirstInPreOrder(StrPaths)).value.val.s))
    /\ located.fn = "int" =>
          IF IntPaths = {} THEN located.res = None
          ELSE located.res = IntOf(NodeAt(tree, FirstInPreOrder(IntPaths)).value.val)

\* a search that went past a matching node with a non-qualifying value, and
\* past a whole earlier subtree, to return a nested node
C7_Witness ==
    /\ located.fn = "int"
    /\ IntPaths # {}
    /\ located.res.some
    /\ Len(FirstInPreOrder(IntPaths)) = 2
    /\ FirstInPreOrder(IntPaths)[1] = 2
    /\ \E p \in MatchingPaths \ IntPaths : PreOrderBefore(p, FirstInPreOrder(IntPaths))

=============================================================================
